---- MODULE Spec2Model ----
(***************************************************************************)
(* Loki client: a mutex-guarded Buffer (pkg.Buffer), callers that push     *)
(* log entries and flush inline when the batch size is reached, one        *)
(* background worker with a periodic ticker, and Stop() over an unbuffered *)
(* channel.  Time is a discrete clock; every step of the code is           *)
(* instantaneous except waiting (select, blocked channel send, the HTTP    *)
(* round trip inside send).                                                *)
(***************************************************************************)
EXTENDS Integers, Sequences, FiniteSets, TLC

\* ---------------------------------------------------------------- bounds
\* the whole client (Spec): caller threads, Stop() calls, accepted entries,
\* clock horizon
NumProducers == 1
MaxStopCalls == 2
MaxEntries == 2
MaxTime == 1
\* the timing scenarios (SpecTimed)
TimedProducers == 1
TimedEntries == 4
TimedHorizon == 5
\* the Buffer scenarios (SpecBuffer)
BufferCallers == 2
BufferEntries == 2
\* the level scenarios (SpecSubmit): calls of the one caller
MaxSubmits == 3
\* the watermark scenarios (SpecWatermark): concurrent callers (from one up
\* to this many), accepted entries
WatermarkProducers == 2
WatermarkEntries == 3
\* the backstop scenarios (SpecBackstop): accepted entries, clock horizon
BackstopEntries == 2
BackstopHorizon == 4

\* ------------------------------------------------------ program constants
LevelDebug == 0
LevelInfo == 1
LevelWarn == 2
LevelError == 3
DefaultBatchSize == 100
DefaultMinWaitTime == 1
DefaultMaxWaitTime == 10

\* ------------------------------------------------------------- processes
\* thread 0 is the goroutine Start launches; the callers are 1, 2, ...
Worker == 0
\* the unlocked sync.Mutex
NoHolder == -1

\* Levels the callers submit with (the Debug and Warn entry points).
LogLevels == {LevelDebug, LevelWarn}

\* Every level a call can carry.
SubmitLevels == {LevelDebug, LevelInfo, LevelWarn, LevelError}

\* Configurations handed to NewClient; 0 is the zero value of a field.
RawConfigs ==
    [BatchSize : {0, 1}, MinWaitTime : {0}, MaxWaitTime : {1}, MinLevel : {0}]
TimedConfigs ==
    [BatchSize : {2}, MinWaitTime : {0}, MaxWaitTime : {2}, MinLevel : {0}]
BufferConfigs ==
    [BatchSize : {0, 2}, MinWaitTime : {0}, MaxWaitTime : {0}, MinLevel : {0}]
BackstopConfigs ==
    [BatchSize : {0, 3}, MinWaitTime : {0}, MaxWaitTime : {1, 2}, MinLevel : {0}]
WatermarkConfigs ==
    [BatchSize : {1, 2}, MinWaitTime : {0}, MaxWaitTime : {0}, MinLevel : {0}]
SubmitConfigs ==
    [BatchSize : {2, 3}, MinWaitTime : {0}, MaxWaitTime : {0}, MinLevel : SubmitLevels]

\* A LogEntry: Timestamp ts, Level level, and a Message id that is distinct
\* for every accepted call.
NoEntry == [id |-> 0, ts |-> 0, level |-> 0]

VARIABLES
    configArg,  \* the ClientConfig handed to NewClient
    config,     \* Client.config after NewClient
    entries,    \* Buffer.entries
    mu,         \* Buffer.mu: the thread holding it, or NoHolder
    pc,         \* position of every caller thread and of the worker
    entry,      \* per thread: the LogEntry being added
    local,      \* per thread: the value of b.entries it read inside Add/Flush
    batch,      \* per thread: the slice Buffer.Flush returned to Client.flush
    ret,        \* per thread: the value Buffer.Add returned
    stopPc,     \* the thread that owns the client and calls Stop(): "idle",
                \* "sending" (blocked in c.done <- true), "returned"
    lastFlush,  \* worker's local lastFlush
    tickerNext, \* instant of the ticker's next tick
    tickerC,    \* ticker.C holds a tick (channel of capacity 1)
    startedAt,  \* instant the worker created its ticker
    now,        \* the clock, in seconds
    nextId,     \* message of the next accepted entry (messages are distinct)
    sent,       \* history: the Sender invocations, in order
    stopCalls,  \* number of Stop() calls begun
    stopSnapshot, \* history: Buffer.entries when the worker received from done
    submitted   \* history: the levels of the calls Submit recorded, in order

Threads == DOMAIN pc
Producers == Threads \ {Worker}

vars == <<configArg, submitted, config, entries, mu, pc, entry, local, batch, ret, stopPc, lastFlush,
          tickerNext, tickerC, startedAt, now, nextId, sent, stopCalls, stopSnapshot>>

\* --------------------------------------------------------------- NewClient
\* (variant: the minimum level is taken as given)
NewClientKeepsMinLevel(raw) ==
    [BatchSize   |-> IF raw.BatchSize = 0 THEN DefaultBatchSize ELSE raw.BatchSize,
     MinWaitTime |-> IF raw.MinWaitTime = 0 THEN DefaultMinWaitTime ELSE raw.MinWaitTime,
     MaxWaitTime |-> IF raw.MaxWaitTime = 0 THEN DefaultMaxWaitTime ELSE raw.MaxWaitTime,
     MinLevel    |-> raw.MinLevel]
NewClient(raw) ==
    [BatchSize   |-> IF raw.BatchSize = 0 THEN DefaultBatchSize ELSE raw.BatchSize,
     MinWaitTime |-> IF raw.MinWaitTime = 0 THEN DefaultMinWaitTime ELSE raw.MinWaitTime,
     MaxWaitTime |-> IF raw.MaxWaitTime = 0 THEN DefaultMaxWaitTime ELSE raw.MaxWaitTime,
     MinLevel    |-> IF raw.MinLevel = 0 THEN LevelInfo ELSE raw.MinLevel]

InitWith(raws, callers) ==
    /\ configArg \in raws
    /\ config = NewClient(configArg)
    /\ submitted = <<>>
    /\ entries = <<>>
    /\ mu = NoHolder
    /\ pc = [t \in 0..callers |-> IF t = Worker THEN "off" ELSE "idle"]
    /\ entry = [t \in 0..callers |-> NoEntry]
    /\ local = [t \in 0..callers |-> <<>>]
    /\ batch = [t \in 0..callers |-> <<>>]
    /\ ret = [t \in 0..callers |-> FALSE]
    /\ stopPc = "idle"
    /\ lastFlush = 0
    /\ tickerNext = 0
    /\ tickerC = FALSE
    /\ startedAt = 0
    /\ now = 0
    /\ nextId = 1
    /\ sent = <<>>
    /\ stopCalls = 0
    /\ stopSnapshot = <<>>

\* ------------------------------------------------------------ pkg.Buffer
\* sync.Mutex: Lock() proceeds only when nobody holds the mutex.
\* (variant: a Lock() that excludes nobody)
MutexNeverHeld(m) == TRUE
MutexAvailable(m) == m = NoHolder

\* the return expression of Buffer.Add: len(b.entries) >= b.size
\* (variants: > in place of >=; the threshold compared against twice the size)
ThresholdPassed(n, size) == n > size
ThresholdDoubled(n, size) == n >= 2 * size
ThresholdReached(n, size) == n >= size

\* append(b.entries, entry)
\* (variant: the store goes to the last position in use)
BufferOverwriteLast(old, e) ==
    IF Len(old) = 0 THEN <<e>> ELSE [old EXCEPT ![Len(old)] = e]
BufferAppend(old, e) == Append(old, e)

\* what Buffer.Flush leaves in b.entries: make([]LogEntry, 0, b.size)
\* (variant: b.entries is left as it was)
StaleEntries == entries
FreshEntries == <<>>

\* ---------------------------------------------------- pushLogWithLevel
\* A call below the minimum level returns at once; an accepted one builds
\* the entry with the current timestamp and enters Buffer.Add.
\* (variant: no level check)
AcceptedAlways(level) == TRUE
Accepted(level) == ~(level < config.MinLevel)

pushLogWithLevel(t, level, maxEntries) ==
    /\ pc[t] = "idle"
    /\ IF Accepted(level)
       THEN /\ nextId <= maxEntries
            /\ entry' = [entry EXCEPT ![t] = [id |-> nextId, ts |-> now, level |-> level]]
            /\ nextId' = nextId + 1
            /\ pc' = [pc EXCEPT ![t] = "add_lock"]
       ELSE UNCHANGED <<entry, nextId, pc>>
    /\ UNCHANGED <<config, configArg, entries, mu, local, batch, ret, stopPc, lastFlush,
                   tickerNext, tickerC, startedAt, now, sent, stopCalls, stopSnapshot>>

\* a call through one of the entry points the callers use
PushLog(t, maxEntries) ==
    /\ \E level \in LogLevels : pushLogWithLevel(t, level, maxEntries)
    /\ UNCHANGED submitted

\* a call through any entry point (Debug, Info, Warn, Error), its level
\* recorded in the history
Submit(t, maxCalls) ==
    /\ Len(submitted) < maxCalls
    /\ \E level \in SubmitLevels :
        /\ pushLogWithLevel(t, level, maxCalls)
        /\ submitted' = Append(submitted, level)

\* Buffer.Add: b.mu.Lock()
AddLock(t) ==
    /\ pc[t] = "add_lock"
    /\ MutexAvailable(mu)
    /\ mu' = t
    /\ pc' = [pc EXCEPT ![t] = "add_read"]
    /\ UNCHANGED <<config, configArg, submitted, entries, entry, local, batch, ret, stopPc, lastFlush,
                   tickerNext, tickerC, startedAt, now, nextId, sent, stopCalls, stopSnapshot>>

\* Buffer.Add: the read of b.entries in append(b.entries, entry)
AddRead(t) ==
    /\ pc[t] = "add_read"
    /\ local' = [local EXCEPT ![t] = entries]
    /\ pc' = [pc EXCEPT ![t] = "add_write"]
    /\ UNCHANGED <<config, configArg, submitted, entries, mu, entry, batch, ret, stopPc, lastFlush,
                   tickerNext, tickerC, startedAt, now, nextId, sent, stopCalls, stopSnapshot>>

\* Buffer.Add: the store to b.entries, the return value, the deferred Unlock
AddWrite(t) ==
    /\ pc[t] = "add_write"
    /\ entries' = BufferAppend(local[t], entry[t])
    /\ ret' = [ret EXCEPT ![t] = ThresholdReached(Len(entries'), config.BatchSize)]
    /\ local' = [local EXCEPT ![t] = <<>>]
    /\ mu' = NoHolder
    /\ pc' = [pc EXCEPT ![t] = "add_ret"]
    /\ UNCHANGED <<config, configArg, submitted, entry, batch, stopPc, lastFlush,
                   tickerNext, tickerC, startedAt, now, nextId, sent, stopCalls, stopSnapshot>>

\* pushLogWithLevel: if c.buffer.Add(entry) { c.flush() }; return nil
\* (variant: the result of Add is ignored)
AfterAddIgnored(reached) == "idle"
AfterAdd(reached) == IF reached THEN "flush_lock" ELSE "idle"

AddReturn(t) ==
    /\ pc[t] = "add_ret"
    /\ pc' = [pc EXCEPT ![t] = AfterAdd(ret[t])]
    /\ entry' = [entry EXCEPT ![t] = NoEntry]
    /\ ret' = [ret EXCEPT ![t] = FALSE]
    /\ UNCHANGED <<config, configArg, submitted, entries, mu, local, batch, stopPc, lastFlush,
                   tickerNext, tickerC, startedAt, now, nextId, sent, stopCalls, stopSnapshot>>

\* ------------------------------------------------------------ Client.flush
\* where a thread continues when Client.flush returns
AfterFlush(t) == IF t = Worker THEN "stamp" ELSE "idle"

\* Buffer.Flush: b.mu.Lock()
FlushLock(t) ==
    /\ pc[t] = "flush_lock"
    /\ MutexAvailable(mu)
    /\ mu' = t
    /\ pc' = [pc EXCEPT ![t] = "flush_read"]
    /\ UNCHANGED <<config, configArg, submitted, entries, entry, local, batch, ret, stopPc, lastFlush,
                   tickerNext, tickerC, startedAt, now, nextId, sent, stopCalls, stopSnapshot>>

\* Buffer.Flush: entries := b.entries
FlushRead(t) ==
    /\ pc[t] = "flush_read"
    /\ local' = [local EXCEPT ![t] = entries]
    /\ pc' = [pc EXCEPT ![t] = "flush_write"]
    /\ UNCHANGED <<config, configArg, submitted, entries, mu, entry, batch, ret, stopPc, lastFlush,
                   tickerNext, tickerC, startedAt, now, nextId, sent, stopCalls, stopSnapshot>>

\* Buffer.Flush: b.entries = make(...); return entries; the deferred Unlock
FlushWrite(t) ==
    /\ pc[t] = "flush_write"
    /\ entries' = FreshEntries
    /\ batch' = [batch EXCEPT ![t] = local[t]]
    /\ local' = [local EXCEPT ![t] = <<>>]
    /\ mu' = NoHolder
    /\ pc' = [pc EXCEPT ![t] = "flush_ret"]
    /\ UNCHANGED <<config, configArg, submitted, entry, ret, stopPc, lastFlush,
                   tickerNext, tickerC, startedAt, now, nextId, sent, stopCalls, stopSnapshot>>

\* Client.flush: return when nothing was drained, else group the entries by
\* level, build the request and call send
\* (variants: a batch of one entry is taken for an empty one; no check)
SkipSendUpToOne(drained) == Len(drained) <= 1
SkipSendNever(drained) == FALSE
SkipSend(drained) == Len(drained) = 0

\* pkg.LevelToString
LevelToString(level) ==
    CASE level = LevelDebug -> "debug"
      [] level = LevelInfo -> "info"
      [] level = LevelWarn -> "warn"
      [] level = LevelError -> "error"
      [] OTHER -> "unknown"

\* strconv.FormatInt(n, 10): the decimal digits of n, a minus sign first
\* for a negative n
RECURSIVE FormatInt(_)
FormatInt(n) ==
    IF n < 0 THEN <<"-">> \o FormatInt(0 - n)
    ELSE IF n < 10 THEN <<n>>
    ELSE FormatInt(n \div 10) \o <<n % 10>>

\* the [2]string of one entry: timestamp string, message
EntryValue(e) == <<FormatInt(e.ts), e.id>>

\* levelGroups[level] after the loop over the drained entries: append puts
\* every value behind the ones its level already has
\* (variant: every value goes in front of them)
RECURSIVE LevelGroupNewestFirst(_, _)
LevelGroupNewestFirst(drained, level) ==
    IF drained = <<>> THEN <<>>
    ELSE LET e == drained[Len(drained)]
             front == SubSeq(drained, 1, Len(drained) - 1)
         IN  (IF e.level = level THEN <<EntryValue(e)>> ELSE <<>>)
                 \o LevelGroupNewestFirst(front, level)
RECURSIVE LevelGroup(_, _)
LevelGroup(drained, level) ==
    IF drained = <<>> THEN <<>>
    ELSE LET e == drained[Len(drained)]
             front == SubSeq(drained, 1, Len(drained) - 1)
         IN  LevelGroup(front, level)
                 \o (IF e.level = level THEN <<EntryValue(e)>> ELSE <<>>)

\* the keys of levelGroups
GroupLevels(drained) == {drained[i].level : i \in DOMAIN drained}

\* one Stream: the labels (detected_level; the configured labels are the
\* same in every stream and left out) and the values of the level
MakeStream(drained, level) ==
    [Stream |-> [detected_level |-> LevelToString(level)],
     Values |-> LevelGroup(drained, level)]

\* the streams slice: one Stream per key of levelGroups, in the order the
\* range over the map happens to visit the keys
BuildStreams(drained) ==
    LET keys == GroupLevels(drained)
        n == Cardinality(keys)
        visits == {f \in [1..n -> keys] : \A k \in keys : \E i \in 1..n : f[i] = k}
    IN  {[i \in 1..n |-> MakeStream(drained, f[i])] : f \in visits}

FlushSend(t) ==
    /\ pc[t] = "flush_ret"
    /\ IF SkipSend(batch[t])
       THEN /\ pc' = [pc EXCEPT ![t] = AfterFlush(t)]
            /\ UNCHANGED sent
       ELSE /\ \E streams \in BuildStreams(batch[t]) :
                    sent' = Append(sent, [by |-> t, at |-> now, entries |-> batch[t],
                                          streams |-> streams])
            /\ pc' = [pc EXCEPT ![t] = "in_send"]
    /\ batch' = [batch EXCEPT ![t] = <<>>]
    /\ UNCHANGED <<config, configArg, submitted, entries, mu, entry, local, ret, stopPc, lastFlush,
                   tickerNext, tickerC, startedAt, now, nextId, stopCalls, stopSnapshot>>

\* Client.send returns: nil after a 204, after which Client.flush returns;
\* an error otherwise, which Client.flush goes on to log
SendReturn(t) ==
    /\ pc[t] = "in_send"
    /\ \E ok \in BOOLEAN :
        pc' = [pc EXCEPT ![t] = IF ok THEN AfterFlush(t) ELSE "log_err"]
    /\ UNCHANGED <<config, configArg, submitted, entries, mu, entry, local, batch, ret, stopPc, lastFlush,
                   tickerNext, tickerC, startedAt, now, nextId, sent, stopCalls, stopSnapshot>>

\* Client.flush: log.Println(err.Error()), then return; the batch is dropped
\* and the buffer is left as it is
\* (variant: the batch of the failed request goes back into the buffer)
FailedBatch(t) ==
    LET mine == {i \in DOMAIN sent : sent[i].by = t}
    IN  sent[CHOOSE i \in mine : \A j \in mine : j <= i].entries
RequeuedOnError(t) == entries \o FailedBatch(t)
UntouchedOnError(t) == entries

LogError(t) ==
    /\ pc[t] = "log_err"
    /\ pc' = [pc EXCEPT ![t] = AfterFlush(t)]
    /\ entries' = UntouchedOnError(t)
    /\ UNCHANGED <<config, configArg, submitted, mu, entry, local, batch, ret, stopPc, lastFlush,
                   tickerNext, tickerC, startedAt, now, nextId, sent, stopCalls, stopSnapshot>>

\* ------------------------------------------------------------ Start, worker
\* Start: go c.worker(); the worker creates its ticker and reads the clock
Start ==
    /\ pc[Worker] = "off"
    /\ pc' = [pc EXCEPT ![Worker] = "select"]
    /\ tickerNext' = now + config.MaxWaitTime
    /\ startedAt' = now
    /\ lastFlush' = now
    /\ UNCHANGED <<config, configArg, submitted, entries, mu, entry, local, batch, ret, stopPc,
                   tickerC, now, nextId, sent, stopCalls, stopSnapshot>>

\* worker: case <-ticker.C
WorkerTick ==
    /\ pc[Worker] = "select"
    /\ tickerC
    /\ tickerC' = FALSE
    /\ pc' = [pc EXCEPT ![Worker] = "check"]
    /\ UNCHANGED <<config, configArg, submitted, entries, mu, entry, local, batch, ret, stopPc, lastFlush,
                   tickerNext, startedAt, now, nextId, sent, stopCalls, stopSnapshot>>

\* worker: if time.Since(lastFlush) >= MaxWaitTime seconds
\* (variant: > in place of >=)
BackstopOverdue(since, maxWait) == since > maxWait
BackstopDue(since, maxWait) == since >= maxWait

WorkerCheck ==
    /\ pc[Worker] = "check"
    /\ pc' = [pc EXCEPT ![Worker] =
                 IF BackstopDue(now - lastFlush, config.MaxWaitTime)
                 THEN "flush_lock" ELSE "select"]
    /\ UNCHANGED <<config, configArg, submitted, entries, mu, entry, local, batch, ret, stopPc, lastFlush,
                   tickerNext, tickerC, startedAt, now, nextId, sent, stopCalls, stopSnapshot>>

\* worker: lastFlush = time.Now() after c.flush() returned
WorkerStamp ==
    /\ pc[Worker] = "stamp"
    /\ lastFlush' = now
    /\ pc' = [pc EXCEPT ![Worker] = "select"]
    /\ UNCHANGED <<config, configArg, submitted, entries, mu, entry, local, batch, ret, stopPc,
                   tickerNext, tickerC, startedAt, now, nextId, sent, stopCalls, stopSnapshot>>

\* ------------------------------------------------------------------- Stop
\* Stop: c.done <- true begins; done is unbuffered, the caller blocks
\* (variant: a send that gives up when no receiver is waiting)
StopCallNonBlocking(maxCalls) ==
    /\ stopPc \in {"idle", "returned"}
    /\ stopCalls < maxCalls
    /\ stopCalls' = stopCalls + 1
    /\ stopPc' = IF pc[Worker] = "select" THEN "sending" ELSE "returned"
    /\ UNCHANGED <<config, configArg, submitted, entries, mu, pc, entry, local, batch,
                   ret, lastFlush, tickerNext, tickerC, startedAt, now, nextId, sent,
                   stopSnapshot>>
StopCall(maxCalls) ==
    /\ stopPc \in {"idle", "returned"}
    /\ stopCalls < maxCalls
    /\ stopCalls' = stopCalls + 1
    /\ stopPc' = "sending"
    /\ UNCHANGED <<config, configArg, submitted, entries, mu, pc, entry, local, batch, ret, lastFlush,
                   tickerNext, tickerC, startedAt, now, nextId, sent, stopSnapshot>>

\* what the worker does on case <-c.done
OnDone == "return"

\* worker: case <-c.done, the rendezvous with the blocked Stop()
WorkerDone ==
    /\ pc[Worker] = "select"
    /\ stopPc = "sending"
    /\ stopPc' = "returned"
    /\ pc' = [pc EXCEPT ![Worker] = OnDone]
    /\ stopSnapshot' = entries
    /\ UNCHANGED <<config, configArg, submitted, entries, mu, entry, local, batch, ret, lastFlush,
                   tickerNext, tickerC, startedAt, now, nextId, sent, stopCalls>>

\* worker: return
WorkerReturn ==
    /\ pc[Worker] = "return"
    /\ pc' = [pc EXCEPT ![Worker] = "exited"]
    /\ UNCHANGED <<config, configArg, submitted, entries, mu, entry, local, batch, ret, stopPc, lastFlush,
                   tickerNext, tickerC, startedAt, now, nextId, sent, stopCalls, stopSnapshot>>

\* ------------------------------------------------------------------ clock
\* A thread is waiting when its next step takes time: a caller between
\* calls or inside the HTTP round trip, the worker blocked in select.
Waiting(t) ==
    IF t = Worker
    THEN \/ pc[t] \in {"off", "in_send", "exited"}
         \/ /\ pc[t] = "select"
            /\ ~tickerC
            /\ stopPc # "sending"
    ELSE pc[t] \in {"idle", "in_send"}

\* One second passes; the ticker sends on ticker.C every MaxWaitTime
\* seconds and drops the tick when the channel is full.
Advance(horizon) ==
    /\ now < horizon
    /\ \A t \in Threads : Waiting(t)
    /\ now' = now + 1
    /\ IF pc[Worker] # "off" /\ now' = tickerNext
       THEN /\ tickerC' = TRUE
            /\ tickerNext' = tickerNext + config.MaxWaitTime
       ELSE UNCHANGED <<tickerC, tickerNext>>
    /\ UNCHANGED <<config, configArg, submitted, entries, mu, pc, entry, local, batch, ret, stopPc, lastFlush,
                   startedAt, nextId, sent, stopCalls, stopSnapshot>>

\* ------------------------------------------------------- specifications
BufferStep ==
    \/ \E t \in Producers : AddLock(t)
    \/ \E t \in Producers : AddRead(t)
    \/ \E t \in Producers : AddWrite(t)
    \/ \E t \in Producers : AddReturn(t)
    \/ \E t \in Threads : FlushLock(t)
    \/ \E t \in Threads : FlushRead(t)
    \/ \E t \in Threads : FlushWrite(t)
    \/ \E t \in Threads : FlushSend(t)
    \/ \E t \in Threads : SendReturn(t)
    \/ \E t \in Threads : LogError(t)

WorkerStep ==
    \/ Start
    \/ WorkerTick
    \/ WorkerCheck
    \/ WorkerStamp

StopStep ==
    \/ StopCall(MaxStopCalls)
    \/ WorkerDone
    \/ WorkerReturn

\* the whole client: callers, worker, Stop() callers, clock
Init == InitWith(RawConfigs, NumProducers)

Next ==
    \/ \E t \in Producers : PushLog(t, MaxEntries)
    \/ BufferStep
    \/ WorkerStep
    \/ StopStep
    \/ Advance(MaxTime)

Spec == Init /\ [][Next]_vars

\* the timing scenarios: callers, worker and clock over a longer horizon,
\* Stop() never called
InitTimed == InitWith(TimedConfigs, TimedProducers)

NextTimed ==
    \/ \E t \in Producers : PushLog(t, TimedEntries)
    \/ BufferStep
    \/ WorkerStep
    \/ Advance(TimedHorizon)

SpecTimed == InitTimed /\ [][NextTimed]_vars

\* the Buffer scenarios: callers invoke Add (through pushLogWithLevel) and
\* drain the Buffer at any moment; no worker, the clock stands still
InitBuffer == InitWith(BufferConfigs, BufferCallers)

\* a caller starts a drain of its own
CallFlush(t) ==
    /\ pc[t] = "idle"
    /\ pc' = [pc EXCEPT ![t] = "flush_lock"]
    /\ UNCHANGED <<config, configArg, submitted, entries, mu, entry, local, batch, ret, stopPc, lastFlush,
                   tickerNext, tickerC, startedAt, now, nextId, sent, stopCalls, stopSnapshot>>

NextBuffer ==
    \/ \E t \in Producers : PushLog(t, BufferEntries)
    \/ \E t \in Producers : CallFlush(t)
    \/ BufferStep

SpecBuffer == InitBuffer /\ [][NextBuffer]_vars

\* the watermark scenarios: one or several callers push concurrently and
\* flush when Add reports the threshold; no worker, the clock stands still
InitWatermark == \E callers \in 1..WatermarkProducers : InitWith(WatermarkConfigs, callers)

NextWatermark ==
    \/ \E t \in Producers : PushLog(t, WatermarkEntries)
    \/ BufferStep

SpecWatermark == InitWatermark /\ [][NextWatermark]_vars

\* the backstop scenarios: one caller, the worker and the clock; Stop() is
\* never called
InitBackstop == InitWith(BackstopConfigs, 1)

NextBackstop ==
    \/ \E t \in Producers : PushLog(t, BackstopEntries)
    \/ BufferStep
    \/ WorkerStep
    \/ Advance(BackstopHorizon)

SpecBackstop == InitBackstop /\ [][NextBackstop]_vars

\* the failing-transport scenarios: the backstop scenarios with a Sender
\* that answers every request with an error
SendsFail ==
    \A t \in Threads : (pc[t] = "in_send" /\ pc'[t] # "in_send") => pc'[t] = "log_err"

NextSendFails == NextBackstop /\ SendsFail

SpecSendFails == InitBackstop /\ [][NextSendFails]_vars

\* the level scenarios: one caller submits at every level to clients built
\* with every minimum level; no worker, the clock stands still
InitSubmit == InitWith(SubmitConfigs, 1)

NextSubmit ==
    \/ \E t \in Producers : Submit(t, MaxSubmits)
    \/ BufferStep

SpecSubmit == InitSubmit /\ [][NextSubmit]_vars

\* ------------------------------------------------------------- vocabulary
\* number of positions of seq that hold the entry with message id
Occurs(seq, id) == Cardinality({i \in DOMAIN seq : seq[i].id = id})

Ids(seq) == {seq[i].id : i \in DOMAIN seq}

\* the accepted entries whose Buffer.Add has returned
AddInProgress(t) == pc[t] \in {"add_lock", "add_read", "add_write"}
CompletedIds ==
    (1..(nextId - 1)) \ {entry[t].id : t \in {u \in Threads : AddInProgress(u)}}

\* how often the entry was returned by a Buffer.Flush call: the batch is held
\* by the thread that drained it until it is handed to the Sender
TimesDrained(id) ==
    LET inBatch == {t \in Threads : Occurs(batch[t], id) > 0}
        inSent == {i \in DOMAIN sent : Occurs(sent[i].entries, id) > 0}
    IN  Cardinality(inBatch) + Cardinality(inSent)

\* no Buffer.Flush call has returned an entry so far
NoDrainYet == sent = <<>> /\ \A t \in Threads : batch[t] = <<>>

\* the entries of the batches drained and not yet handed to the Sender
\* (threads 0..k), and of the batches handed to it (invocations 1..k)
RECURSIVE BatchEntries(_)
BatchEntries(k) == IF k < 0 THEN <<>> ELSE BatchEntries(k - 1) \o batch[k]
RECURSIVE SentEntries(_)
SentEntries(k) == IF k = 0 THEN <<>> ELSE SentEntries(k - 1) \o sent[k].entries
HeldEntries == BatchEntries(Cardinality(Threads) - 1)
AllSentEntries == SentEntries(Len(sent))

\* number of buffer positions that hold the entry
InBuffer(id) == Occurs(entries, id)

\* the step in which thread t's Buffer.Flush call returns
FlushReturns(t) == pc[t] = "flush_write" /\ pc'[t] = "flush_ret"

\* the step in which thread t's Buffer.Add call returns
AddReturns(t) == pc[t] = "add_write" /\ pc'[t] = "add_ret"

\* ------------------------------------------------------------------ claims
\* C1: when Stop() is called with entries in the buffer, the worker sends
\* exactly those entries in one Sender invocation before it exits.
C1_FinalFlushOnStop ==
    (pc[Worker] = "exited" /\ Len(stopSnapshot) > 0)
        => Cardinality({i \in DOMAIN sent : sent[i].entries = stopSnapshot}) = 1

\* C2: a Stop() call made after the worker has taken the stop signal is a
\* no-op that returns: no caller of Stop() stays blocked on the done channel
\* once the worker has stopped receiving from it.
C2_StopNeverStuck ==
    stopPc = "sending" => pc[Worker] \notin {"return", "exited"}

\* after any step: no entry was returned by two Buffer.Flush calls, and an
\* entry whose Add returned is in the buffer or was returned by one Flush
C3_NoDoubleDrain ==
    \A id \in 1..(nextId - 1) :
        /\ TimesDrained(id) <= 1
        /\ id \in CompletedIds => Occurs(entries, id) + TimesDrained(id) = 1
C3_AfterStep == C3_NoDoubleDrain'
\* a returning Flush hands back every completed entry not drained before
C3_FlushTakesAll ==
    \A t \in Threads :
        FlushReturns(t) =>
            Ids(batch'[t]) = CompletedIds \ {id \in CompletedIds : TimesDrained(id) > 0}

\* C3: no entry is returned by more than one Buffer.Flush call, and a
\* Buffer.Flush call returns every entry whose Add completed before it and
\* that no earlier Flush returned.
C3_FlushExactlyOnce == [][C3_AfterStep /\ C3_FlushTakesAll]_vars

\* C3 witness: a second Flush call has returned a non-empty batch after an
\* earlier one did.
C3_Witness ==
    /\ Len(sent) >= 1
    /\ \E t \in Threads : pc[t] = "flush_ret" /\ Len(batch[t]) > 0

\* C4: two size-triggered flushes (flushes a caller runs because Add
\* reported the threshold) are never less than MinWaitTime apart.
C4_SizeFlushThrottle ==
    \A i, j \in DOMAIN sent :
        (i < j /\ sent[i].by # Worker /\ sent[j].by # Worker)
            => sent[j].at - sent[i].at >= config.MinWaitTime

\* C5: the worker's timer-driven flush happens only when no flush of any
\* kind took place within the preceding MaxWaitTime.
C5_BackstopOnlyAfterQuiet ==
    \A i, j \in DOMAIN sent :
        (i < j /\ sent[j].by = Worker)
            => sent[j].at - sent[i].at >= config.MaxWaitTime

\* the worker is back in its select with no tick left to handle
WorkerIdle == pc[Worker] = "select" /\ ~tickerC

\* C6: while the worker runs, no entry added since its start stays in the
\* buffer longer than MaxWaitTime; stated for the moments at which the worker
\* is back in its select with no tick left to handle.
C6_StalenessCeiling ==
    WorkerIdle =>
        \A i \in DOMAIN entries :
            entries[i].ts >= startedAt => now - entries[i].ts <= config.MaxWaitTime

\* the step in which an Add returns: its result against the new length, and
\* the new length against the number of Add calls that have returned
C7_AddStep ==
    \A t \in Producers :
        AddReturns(t) =>
            /\ ret'[t] <=> (Len(entries') >= config.BatchSize)
            /\ NoDrainYet' => Len(entries') = Cardinality(CompletedIds')

\* C7: Buffer.Add returns true exactly when the length right after its
\* append is at least BatchSize; as long as nothing was drained that length
\* is the number of Add calls that have returned, so the first BatchSize-1
\* calls return false and the call that reaches BatchSize returns true.
C7_AddThreshold == [][C7_AddStep]_vars

\* C7 witness: with nothing drained yet, an Add has just returned true on
\* bringing the length to BatchSize, after an Add that left it below.
C7_Witness ==
    /\ NoDrainYet
    /\ config.BatchSize > 1
    /\ Len(entries) = config.BatchSize
    /\ \E t \in Producers : pc[t] = "add_ret" /\ ret[t]

\* a returning Flush hands back the buffer as it stood and empties it; a
\* returning Add has put its entry behind the ones already there
C8_FlushStep ==
    \A t \in Threads :
        /\ FlushReturns(t) => (batch'[t] = entries /\ Len(entries') = 0)
        /\ AddReturns(t) => entries' = Append(entries, entry[t])

\* C8: Buffer.Flush returns the buffered entries in the order the Add calls
\* appended them and leaves the buffer empty; on an empty buffer it returns
\* an empty sequence and leaves the buffer empty.
C8_FlushInOrder == [][C8_FlushStep]_vars

\* C8 witness: one caller's Flush has returned two entries and another
\* caller's Flush, with no Add in between, has returned none.
C8_Witness ==
    /\ entries = <<>>
    /\ \E t, u \in Threads :
        /\ pc[t] = "flush_ret" /\ Len(batch[t]) >= 2
        /\ pc[u] = "flush_ret" /\ Len(batch[u]) = 0

\* C9: with BatchSize above the number of entries and nothing drained,
\* concurrent Add calls leave one buffer position per returned call, every
\* added entry exactly once.
C9_NoLostAdd ==
    (config.BatchSize > BufferEntries /\ NoDrainYet) =>
        /\ Len(entries) = Cardinality(CompletedIds)
        /\ \A id \in CompletedIds : InBuffer(id) = 1

\* C9 witness: all calls of both callers have returned, and the buffer order
\* differs from the order in which the calls began.
C9_Witness ==
    /\ config.BatchSize > BufferEntries
    /\ NoDrainYet
    /\ Len(entries) = BufferEntries
    /\ \E i, j \in DOMAIN entries : i < j /\ entries[i].id > entries[j].id

\* C10: every accepted entry is handed to the Sender at most once, and at
\* every moment an entry whose Add returned is in exactly one place: the
\* buffer, one batch drained and about to be sent, or one batch sent.
C10_AtMostOnce ==
    LET handed == AllSentEntries
        places == entries \o HeldEntries \o handed
        done == CompletedIds
    IN  \A id \in 1..(nextId - 1) :
            /\ Occurs(handed, id) <= 1
            /\ Occurs(places, id) = IF id \in done THEN 1 ELSE 0

\* C10 witness: the worker has sent a batch from its timer-driven flush and
\* a caller holds a batch it drained on reaching the threshold.
C10_Witness ==
    /\ \E i \in DOMAIN sent : sent[i].by = Worker
    /\ \E t \in Producers : pc[t] = "flush_ret" /\ Len(batch[t]) > 0

\* the levels of the entries of a sequence, in order
Levels(seq) == [i \in DOMAIN seq |-> seq[i].level]

\* the recorded calls the level check lets through
AtOrAboveMin(level) == level >= config.MinLevel
PassingLevels == SelectSeq(submitted, AtOrAboveMin)

\* the step is a recorded call whose level is below the minimum level
DiscardedCall ==
    /\ Len(submitted') = Len(submitted) + 1
    /\ submitted'[Len(submitted')] < config.MinLevel

\* a discarded call changes nothing but the history: no entry is built or
\* buffered, the caller is back where it was (no flush, no send, no error
\* path), and with every call returned and nothing drained the buffer holds
\* the entries of the calls at or above the minimum level, in call order
C11_DiscardStep ==
    /\ DiscardedCall =>
            UNCHANGED <<config, entries, mu, pc, entry, local, batch, ret, stopPc,
                        lastFlush, tickerNext, tickerC, startedAt, now, nextId,
                        sent, stopCalls, stopSnapshot>>
    /\ ((\A t \in Producers : pc'[t] = "idle") /\ NoDrainYet')
            => Levels(entries') = PassingLevels'

\* C11: a submission whose level is below the minimum level is discarded
\* with no side effect (buffer unchanged, no flush, no Sender invocation, no
\* error), so the buffer holds exactly the entries of the submissions at or
\* above the minimum level.
C11_BelowMinDiscarded == [][C11_DiscardStep]_vars

\* C11 witness: minimum level Warn; one Debug, one Info and one Warn call
\* have returned and the buffer holds the Warn entry alone.
C11_Witness ==
    /\ config.MinLevel = LevelWarn
    /\ submitted = <<LevelDebug, LevelInfo, LevelWarn>>
    /\ \A t \in Producers : pc[t] = "idle"
    /\ Len(entries) = 1
    /\ entries[1].level = LevelWarn
    /\ sent = <<>>

\* the messages of the entries of a sequence, in order
IdSeq(seq) == [i \in DOMAIN seq |-> seq[i].id]

\* every call of every caller has returned
CallersIdle == \A t \in Producers : pc[t] = "idle"

\* C12: one caller, empty buffer at the start: while fewer than BatchSize
\* entries were accepted nothing is sent and all of them are buffered; when
\* the call that accepted entry number BatchSize has returned, exactly one
\* Sender invocation has happened, made by the caller itself at the instant
\* of that entry (no tick involved), carrying entries 1..BatchSize in order,
\* and the buffer is empty.
C12_ThresholdFlushInline ==
    LET n == nextId - 1
        B == config.BatchSize
    IN  CallersIdle =>
            /\ n < B => (sent = <<>> /\ IdSeq(entries) = [i \in 1..n |-> i])
            /\ n = B =>
                    /\ Len(sent) = 1
                    /\ sent[1].by \in Producers
                    /\ IdSeq(sent[1].entries) = [i \in 1..B |-> i]
                    /\ sent[1].at = sent[1].entries[B].ts
                    /\ ~tickerC
                    /\ entries = <<>>

\* C12 witness: the call that completed the batch has returned after its
\* inline flush handed BatchSize entries to the Sender.
C12_Witness ==
    /\ CallersIdle
    /\ nextId - 1 = config.BatchSize
    /\ Len(sent) = 1
    /\ Len(sent[1].entries) = config.BatchSize
    /\ entries = <<>>

\* every accepted entry wherever it is: being added, buffered, drained and
\* held by a thread, or handed to the Sender
RECURSIVE EntriesInAdd(_)
EntriesInAdd(k) ==
    IF k < 0 THEN <<>>
    ELSE EntriesInAdd(k - 1) \o (IF entry[k] = NoEntry THEN <<>> ELSE <<entry[k]>>)
AcceptedEntries ==
    EntriesInAdd(Cardinality(Threads) - 1) \o entries \o HeldEntries \o AllSentEntries

\* every accepted entry was submitted with the worker running and before the
\* worker's first tick
InFirstPeriod ==
    \A i \in DOMAIN AcceptedEntries :
        /\ AcceptedEntries[i].ts >= startedAt
        /\ AcceptedEntries[i].ts < startedAt + config.MaxWaitTime

\* more than MaxWaitTime has passed since every submission
WaitedBeyondMax ==
    \A i \in DOMAIN AcceptedEntries : now > AcceptedEntries[i].ts + config.MaxWaitTime

SendFails(t) == pc[t] = "in_send" /\ pc'[t] = "log_err"
ErrorLogged(t) == pc[t] = "log_err" /\ pc'[t] # "log_err"

\* entries handed to the Sender are in no later request, in no drained
\* batch and not in the buffer, and a thread inside send or logging the
\* error holds neither the mutex nor a batch
C14_NothingComesBack ==
    /\ \A i \in DOMAIN sent : \A k \in DOMAIN sent[i].entries :
            /\ Occurs(entries, sent[i].entries[k].id) = 0
            /\ TimesDrained(sent[i].entries[k].id) = 1
    /\ \A t \in Threads :
            pc[t] \in {"in_send", "log_err"} => (mu # t /\ batch[t] = <<>>)

C14_FailureStep ==
    /\ C14_NothingComesBack'
    /\ \A t \in Threads :
            /\ SendFails(t) => UNCHANGED <<entries, sent, batch, mu>>
            /\ ErrorLogged(t) =>
                    /\ pc'[t] = AfterFlush(t)
                    /\ UNCHANGED <<entries, sent, batch, mu>>

C15_StopWaitsForWorker ==
    stopPc = "returned" => pc[Worker] = "exited"

\* the callers whose Add reported the threshold and whose flush has not
\* drained the buffer yet
FlushPending ==
    {t \in Producers :
        \/ pc[t] = "add_ret" /\ ret[t]
        \/ pc[t] \in {"flush_lock", "flush_read", "flush_write"}}

\* the length of the buffer, of every drained batch and of every batch
\* handed to the Sender is at most n
LengthsWithin(n) ==
    /\ Len(entries) <= n
    /\ \A t \in Threads : Len(batch[t]) <= n
    /\ \A i \in DOMAIN sent : Len(sent[i].entries) <= n

\* C16: BatchSize is a soft watermark.  With a single producer the buffer
\* and every drained batch hold at most BatchSize entries.  With several
\* producers they can hold more, by less than the number of producers: the
\* buffer is above BatchSize - 1 only by as many entries as there are
\* producers whose triggered flush has not drained yet.
C16_SoftWatermark ==
    /\ Cardinality(Producers) = 1 => LengthsWithin(config.BatchSize)
    /\ LengthsWithin(config.BatchSize + Cardinality(Producers) - 1)
    /\ Len(entries) - (config.BatchSize - 1) <= Cardinality(FlushPending)

\* C16 witness: two producers; the buffer went above BatchSize and one
\* drained batch handed to the Sender holds more than BatchSize entries.
C16_Witness ==
    /\ Cardinality(Producers) = 2
    /\ \E i \in DOMAIN sent : Len(sent[i].entries) > config.BatchSize

\* the position of the entry with message id in a sequence of entries
PositionOf(seq, id) == CHOOSE p \in DOMAIN seq : seq[p].id = id

\* the (stream, position) pairs of a request at which the message occurs
OccurrencesIn(streams, id) ==
    UNION {{<<j, q>> : q \in {r \in DOMAIN streams[j].Values : streams[j].Values[r][2] = id}}
             : j \in DOMAIN streams}

\* C17: every request has one Stream per level present in its batch, no
\* two with the same label; every entry of the batch is in exactly one
\* Stream, the one labelled with its level, with its timestamp in decimal;
\* no Stream is empty or holds anything else; and inside a Stream the
\* entries are in the order of the batch.
C17_OneStreamPerLevel ==
    \A i \in DOMAIN sent :
        LET en == sent[i].entries
            st == sent[i].streams
        IN  /\ Len(st) = Cardinality({en[p].level : p \in DOMAIN en})
            /\ \A j, k \in DOMAIN st : j # k => st[j].Stream # st[k].Stream
            /\ \A p \in DOMAIN en :
                    /\ Cardinality(OccurrencesIn(st, en[p].id)) = 1
                    /\ \A o \in OccurrencesIn(st, en[p].id) :
                            /\ st[o[1]].Stream.detected_level = LevelToString(en[p].level)
                            /\ st[o[1]].Values[o[2]][1] = FormatInt(en[p].ts)
            /\ \A j \in DOMAIN st :
                    /\ Len(st[j].Values) >= 1
                    /\ \A q \in DOMAIN st[j].Values :
                            \E p \in DOMAIN en : en[p].id = st[j].Values[q][2]
                    /\ \A q, r \in DOMAIN st[j].Values :
                            q < r => PositionOf(en, st[j].Values[q][2])
                                        < PositionOf(en, st[j].Values[r][2])

\* C17 witness: a request built from a batch of three entries of two levels,
\* the two of one level not adjacent in the batch, with the Stream of the
\* higher level placed first.
C17_Witness ==
    \E i \in DOMAIN sent :
        LET en == sent[i].entries
            st == sent[i].streams
        IN  /\ Len(en) = 3
            /\ en[1].level = en[3].level
            /\ en[1].level < en[2].level
            /\ Len(st) = 2
            /\ st[1].Stream.detected_level = LevelToString(en[2].level)
            /\ Len(st[2].Values) = 2

\* thread t's step out of Client.flush's check of an empty drained batch
EmptyFlushReturns(t) ==
    pc[t] = "flush_ret" /\ batch[t] = <<>> /\ pc'[t] # "flush_ret"

C18_EmptyFlushStep ==
    /\ \A i \in DOMAIN sent' :
            Len(sent'[i].entries) >= 1 /\ Len(sent'[i].streams) >= 1
    /\ \A t \in Threads :
            EmptyFlushReturns(t) => (sent' = sent /\ pc'[t] = AfterFlush(t))

\* C18: a flush that drained nothing returns without invoking the Sender,
\* and every Sender invocation carries at least one entry.
C18_NoEmptySend == [][C18_EmptyFlushStep]_vars

\* C18 witness: a timer tick followed a size-triggered flush with nothing
\* added in between; the worker's flush has returned and the only request
\* ever made is the caller's.
C18_Witness ==
    /\ pc[Worker] = "stamp"
    /\ now >= 1
    /\ Len(sent) = 1
    /\ sent[1].by \in Producers
    /\ sent[1].at < now
    /\ entries = <<>>

\* C19: as long as the worker has not been started, a Stop() call that has
\* begun is still blocked in its send on the done channel, so with Start()
\* never called it never returns.
C19_StopBlocksWithoutWorker ==
    (pc[Worker] = "off" /\ stopCalls >= 1) => (stopPc = "sending" /\ stopCalls = 1)

\* C19 witness: Stop() was called on a client that was never started, an
\* entry was pushed and time has passed; the call is still blocked.
C19_Witness ==
    /\ pc[Worker] = "off"
    /\ stopPc = "sending"
    /\ now >= 1
    /\ Len(entries) >= 1

\* C20: whatever minimum level NewClient is given, Debug included, the
\* client's minimum level is at least Info (a given Debug, the zero value,
\* becomes Info), and no Debug entry is ever built, buffered, drained or
\* sent.
C20_DebugNeverConfigured ==
    /\ config.MinLevel >= LevelInfo
    /\ configArg.MinLevel = LevelDebug => config.MinLevel = LevelInfo
    /\ \A i \in DOMAIN AcceptedEntries : AcceptedEntries[i].level # LevelDebug

\* C20 witness: the client was built with minimum level Debug; a Debug call
\* and an Info call have returned and the buffer holds the Info entry alone.
C20_Witness ==
    /\ configArg.MinLevel = LevelDebug
    /\ submitted = <<LevelDebug, LevelInfo>>
    /\ CallersIdle
    /\ Levels(entries) = <<LevelInfo>>

====
